---- MODULE Spec2Model ----
(***************************************************************************)
(* LinkedIn outreach bot: the relationship-state detection and action      *)
(* dispatch engine of LinkedInBot.send_connection_request                  *)
(* (src/linkedin_bot.py) and the bot session handling of the Flask control *)
(* server (src/app.py).                                                    *)
(*                                                                         *)
(* The browser is the environment.  Every driver call of the code          *)
(* (navigate, find, click, type, read) either returns or raises one of     *)
(* Kinds; what it returns is drawn inside the action that makes the call.  *)
(* The profile page is the set of controls visible on it, drawn when the   *)
(* navigation of a dispatch succeeds.                                      *)
(***************************************************************************)
EXTENDS Naturals, Sequences, FiniteSets, TLC

VARIABLES
    pc,                     \* position of the dispatch call in send_connection_request
    logged_in,              \* LinkedInBot.logged_in
    message,                \* the message argument of the running call
    page,                   \* controls visible on the loaded profile page
    status_result,          \* what _detect_relationship_status returned in this call
    strategies,             \* action strategies started in this call, in order
    sel,                    \* index i of the Connect-visible selector loop
    path,                   \* strategy whose Connect click opened the invite dialog
    message_actually_sent,  \* local of both Connect strategies
    clicked,                \* kinds of mutating driver actions done in this call
    outbound,               \* clicks landed on a Connect or Follow control in this call
    outcome,                \* the dict the call returned
    raised,                 \* the call ended by an exception reaching its caller
    prior_request,          \* the previous call returned action_taken = connection_request
    target,                 \* the button the Connect-visible strategy clicked last
    note_text,              \* the text _add_connection_note hands to its strategies
    note_add_method,        \* local of both Connect strategies
    typed_text,             \* field content read back by the fill that reported success
    container,              \* index of the container loop of note strategy 3
    send_control,           \* the submit control _click_send_button clicked last
    modal_after_send,       \* the invite dialog as seen after the last submit click
    submit_offered,         \* the submit controls clickable at the last submit click
    swallowed,              \* a component of this call caught an exception of a driver call
    bot,                    \* app.py: the global bot (0: None, else the bot's number)
    bot_lock,               \* app.py: the thread holding bot_lock (0: free)
    tpc,                    \* position of each request thread of the server
    bot_instance,           \* local bot_instance of each request thread
    browsers,               \* bots whose browser process is running
    dead,                   \* bots whose browser session no longer answers
    made,                   \* LinkedInBot objects constructed so far
    vetted,                 \* how the running get_bot call of each thread vetted which bot
    entry_dead,             \* the global bot, if dead, when each thread's get_bot call began
    failed,                 \* the bot that failed the health check of each thread's get_bot call
    exc,                    \* what str(e) names in each thread's except block
    response,               \* the status code of the thread's last response
    detector,               \* a call of _detect_relationship_status on its own
    clamp_call,             \* a call of the clamp of _add_connection_note on its own
    cpc,                    \* position of a /comment-on-post request in comment_on_post
    comment_text,           \* data.get('comment_text', '')
    comment_clicked,        \* `clicked`: the first comment button was clicked
    comment_box,            \* the selector that found the comment box, 0: None
    comment_method,         \* the typing or submit method the request is at
    typing_success,
    submit_success,
    submit_run,             \* the submit methods whose try block was entered
    comment_success,
    verify_read,            \* how the check after the submit read the box
    comment_response,       \* the response of comment_on_post
    login_check             \* a call of check_login_status on its own

dvars == <<pc, logged_in, message, page, status_result, strategies, sel,
           path, message_actually_sent, clicked, outbound, outcome, raised,
           prior_request, target, note_text, note_add_method, typed_text,
           container, send_control, modal_after_send, submit_offered, swallowed>>

svars == <<bot, bot_lock, tpc, bot_instance, browsers, dead, made, vetted,
           entry_dead, failed, exc, response>>

\* calls of single functions
\* a /comment-on-post request
cvars == <<cpc, comment_text, comment_clicked, comment_box, comment_method,
           typing_success, submit_success, submit_run, comment_success,
           verify_read, comment_response>>

fvars == <<detector, clamp_call, cvars, login_check>>

vars == <<dvars, svars, fvars>>

-----------------------------------------------------------------------------
(* Bounds of the model *)

\* elements one Connect-visible selector can match at once
MaxButtons == 2

\* request threads of the server, and bots it may construct
NumThreads == 2
MaxBots == 2

\* characters by which the longest message tried exceeds NoteLimit
MaxExtra == 5

-----------------------------------------------------------------------------
(* Constants of the program *)

\* `if y_position > 700` and `if x_position > 1000`
MaxY == 700
MaxX == 1000

\* len(visible_connect_selectors), len(container_selectors)
NumVisibleSelectors == 4
NumContainerSelectors == 3

\* `if len(message) > 300` and `message[:297] + "..."`
NoteLimit == 300
NoteKeep == 297

-----------------------------------------------------------------------------
(* Values *)

\* Failures of a browser-driver call: element not found / not clickable,
\* a wait that exceeded its budget (TimeoutException), the session lost.
Kinds == {"structural", "timeout", "session"}

\* Controls of the profile action bar the selectors look for
Controls == {"Pending", "Message", "Connect", "Follow", "Following"}

\* The message arguments tried: empty, whitespace only, a short note
Messages == { <<>>, <<" ">>, <<"H", "i">> }

\* Python's None, and the value of status_result before the detector ran
None == [tag |-> "None"]
NotRun == [tag |-> "not_run"]

\* outcome before the call has returned
NotReturned == [tag |-> "not_returned"]

\* the try-blocks of _detect_relationship_status
Blocks == {"pending_1", "pending_2", "connected", "following"}

\* what a driver call, or a loop of waits over a selector list, comes to:
\* "ok", or the exception it raises ("timeout": no selector resolved in time)
Results == {"ok"} \cup Kinds

\* A button matched by a Connect-visible selector.  stale: is_displayed or
\* location raises on it.
Button(displayed, enabled, x, y, stale) ==
    [displayed |-> displayed, enabled |-> enabled, x |-> x, y |-> y, stale |-> stale]

\* the buttons drawn: in the action bar, on the edge of the accepted region,
\* below it, right of it, hidden, disabled, stale
ButtonShapes ==
    { Button(TRUE, TRUE, 500, 300, FALSE),
      Button(TRUE, TRUE, MaxX, MaxY, FALSE),
      Button(TRUE, TRUE, 500, MaxY + 1, FALSE),
      Button(TRUE, TRUE, MaxX + 1, 300, FALSE),
      Button(FALSE, TRUE, 500, 300, FALSE),
      Button(TRUE, FALSE, 500, 300, FALSE),
      Button(TRUE, TRUE, 500, 300, TRUE) }

ButtonLists == UNION { [1..n -> ButtonShapes] : n \in 0..MaxButtons }

NoButton == [tag |-> "no_button"]

\* the submit controls of the invite dialog
SendControls == {"Send", "Send without a note"}

\* prefixes of a text: what a field may hold after the text was typed into it
Prefixes(text) == { SubSeq(text, 1, n) : n \in 0..Len(text) }

-----------------------------------------------------------------------------
(* Exception handlers *)

\* `except TimeoutException:` catches a timed-out wait only
CatchesTimeoutException(kind) == kind = "timeout"

\* `except Exception` at the end of send_connection_request
DispatchCatchesOnlyTimeout(kind) == kind = "timeout"
DispatchCatches(kind) == kind \in Kinds

-----------------------------------------------------------------------------
(* The dicts send_connection_request returns *)

LoginFailed == [success |-> FALSE, error |-> "Login failed"]

\* the status dict with a message_sent key as well
StatusFoundWithSent(action, text, reason) ==
    [success |-> TRUE, action_taken |-> action, message |-> text,
     profile_url |-> "current_url", skip_reason |-> reason,
     message_sent |-> FALSE]
StatusFound(action, text, reason) ==
    [success |-> TRUE, action_taken |-> action, message |-> text,
     profile_url |-> "current_url", skip_reason |-> reason]

NoActionAvailable ==
    [success |-> FALSE,
     error |-> "No action available - profile may be private or restricted",
     profile_url |-> "profile_url"]

\* str(e) of a driver exception is modelled by its kind
DispatchError(kind) ==
    [success |-> FALSE, error |-> kind, profile_url |-> "profile_url"]

\* result.get('action_taken') and result['success'] as the callers read them
\* (test_connection_request, send_connection); a dict without the key
\* names no action
ActionTaken(o) == IF "action_taken" \in DOMAIN o THEN o.action_taken ELSE "none"
Succeeded(o) == "success" \in DOMAIN o /\ o.success

-----------------------------------------------------------------------------
(* _detect_relationship_status *)

\* the detector with a connected check that does not look for Following
_detect_following_not_counted(pg, faults) ==
    IF \E b \in {"pending_1", "pending_2"} : ~faults[b] /\ "Pending" \in pg
    THEN StatusFound("already_pending", "Connection request already pending",
                     "Connection request already sent and pending")
    ELSE IF /\ ~faults["connected"]
            /\ "Message" \in pg
            /\ "Connect" \notin pg
            /\ "Follow" \notin pg
            /\ "Pending" \notin pg
    THEN StatusFound("already_connected", "Already connected to this person",
                     "Already in network")
    ELSE IF ~faults["following"] /\ "Following" \in pg
    THEN StatusFound("already_following", "Already following this person",
                     "Already following (creator/influencer profile)")
    ELSE None

\* faults[b]: a driver call inside try-block b raises.  A visible Pending
\* control is matched by both pending selectors.
_detect_relationship_status(pg, faults) ==
    IF \E b \in {"pending_1", "pending_2"} : ~faults[b] /\ "Pending" \in pg
    THEN StatusFound("already_pending", "Connection request already pending",
                     "Connection request already sent and pending")
    ELSE IF /\ ~faults["connected"]
            /\ "Message" \in pg
            /\ "Connect" \notin pg
            /\ "Follow" \notin pg /\ "Following" \notin pg
            /\ "Pending" \notin pg
    THEN StatusFound("already_connected", "Already connected to this person",
                     "Already in network")
    ELSE IF ~faults["following"] /\ "Following" \in pg
    THEN StatusFound("already_following", "Already following this person",
                     "Already following (creator/influencer profile)")
    ELSE None

-----------------------------------------------------------------------------
(* LinkedInBot.login *)

\* login() going to the browser whatever the flag
loginChecksAgain(li) ==
    {[ret |-> "true", logged_in |-> TRUE],
     [ret |-> "false", logged_in |-> FALSE]}
    \cup {[ret |-> k, logged_in |-> FALSE] : k \in Kinds}
\* what login() can do on a bot whose flag is li: return true or false with
\* the flag set by check_login_status, or raise from driver.get
login(li) ==
    IF li THEN {[ret |-> "true", logged_in |-> TRUE]}
    ELSE {[ret |-> "true", logged_in |-> TRUE],
          [ret |-> "false", logged_in |-> FALSE]}
         \cup {[ret |-> k, logged_in |-> FALSE] : k \in Kinds}

-----------------------------------------------------------------------------
(* Text helpers *)

IsSpace(c) == c \in {" ", "\t", "\n"}

\* str.strip()
RECURSIVE lstrip(_)
lstrip(s) == IF s # <<>> /\ IsSpace(Head(s)) THEN lstrip(Tail(s)) ELSE s

RECURSIVE rstrip(_)
rstrip(s) ==
    IF s # <<>> /\ IsSpace(s[Len(s)]) THEN rstrip(SubSeq(s, 1, Len(s) - 1)) ELSE s

strip(s) == rstrip(lstrip(s))

\* `text in field`
Contains(field, text) ==
    \E i \in 1..(Len(field) + 1) :
       i + Len(text) - 1 <= Len(field) /\ SubSeq(field, i, i + Len(text) - 1) = text

\* `message and len(message.strip()) > 0`
message_provided(msg) == msg # <<>> /\ Len(strip(msg)) > 0

\* lines 1108-1111 of _add_connection_note
Ellipsis == <<".", ".", ".">>
ClampAtLimit(msg) ==
    IF Len(msg) > NoteLimit THEN SubSeq(msg, 1, NoteLimit) \o Ellipsis ELSE msg
Clamp(msg) ==
    IF Len(msg) > NoteLimit THEN SubSeq(msg, 1, NoteKeep) \o Ellipsis ELSE msg

-----------------------------------------------------------------------------
(* The dicts the strategies return *)

\* message_sent reporting that a message was supplied
ConnectionRequestSentIfProvided(sent, method, msg) ==
    [success |-> TRUE, action_taken |-> "connection_request",
     profile_url |-> "current_url", message_sent |-> message_provided(msg),
     note_method |-> method, message_provided |-> message_provided(msg)]
\* lines 816-823 and 1023-1030
ConnectionRequest(sent, method, msg) ==
    [success |-> TRUE, action_taken |-> "connection_request",
     profile_url |-> "current_url", message_sent |-> sent,
     note_method |-> method, message_provided |-> message_provided(msg)]

\* the failure dict naming the request as made
CouldNotClickSendAfterRequest ==
    [success |-> FALSE, error |-> "Could not click Send button",
     action_taken |-> "connection_request"]
CouldNotClickSend == [success |-> FALSE, error |-> "Could not click Send button"]

Followed ==
    [success |-> TRUE, action_taken |-> "follow", profile_url |-> "current_url",
     message_sent |-> FALSE,
     note |-> "Profile set to Follow mode - sent follow instead of connection"]

-----------------------------------------------------------------------------
(* _try_visible_connect_button: the position filter *)

\* the filter without its vertical threshold
PassesFilterNoVertical(btn) ==
    /\ ~btn.stale
    /\ btn.displayed
    /\ ~(btn.x > MaxX)

\* lines 746-778: the button is displayed and inside the accepted region
PassesFilter(btn) ==
    /\ ~btn.stale
    /\ btn.displayed
    /\ ~(btn.y > MaxY)
    /\ ~(btn.x > MaxX)

\* the first button of the list that passes, or NoButton
FirstValid(btns) ==
    IF \E j \in DOMAIN btns : PassesFilter(btns[j])
    THEN btns[CHOOSE j \in DOMAIN btns :
                 /\ PassesFilter(btns[j])
                 /\ \A k \in 1..(j - 1) : ~PassesFilter(btns[k])]
    ELSE NoButton

\* lines 780-782: the check of a button before the chosen one raised
StaleSeen(btns) ==
    \E j \in DOMAIN btns :
       btns[j].stale /\ \A k \in 1..(j - 1) : ~PassesFilter(btns[k])

-----------------------------------------------------------------------------
(* _fill_message_textarea *)

FillSteps == {"find", "clear", "type", "read"}

\* fail: the driver call that raises ("none": none does), kind: what it
\* raises; typed: the field content read back.  The length check of line
\* 1298 only prints a warning.
_fill_message_textarea(msg, method_name, fail, kind, typed) ==
    IF fail = "find" /\ kind = "timeout"
    THEN [success |-> FALSE, method |-> method_name,
          error |-> "Message text area not found after expansion"]
    ELSE IF fail # "none"
    THEN [success |-> FALSE, method |-> method_name, error |-> kind]
    ELSE [success |-> TRUE, method |-> method_name, error |-> "None"]

\* keys were sent to the field: the field was found and cleared
KeysSent(fail) == fail \in {"none", "type", "read"}

\* the run ended in the `except Exception` of lines 1309-1316; a field not
\* found in time is reported without one (lines 1274-1280)
FillRaised(run) == run.fail # "none" /\ ~(run.fail = "find" /\ run.kind = "timeout")

-----------------------------------------------------------------------------
(* send_connection_request: how a step hands control on *)

\* the locals and observations of one Connect attempt
attempt == <<target, note_text, note_add_method, typed_text, send_control,
             modal_after_send, submit_offered, message_actually_sent>>

\* the arguments and the bot
callv == <<logged_in, message, prior_request>>

Return(o) ==
    /\ pc' = "done"
    /\ outcome' = o
    /\ raised' = FALSE
    /\ sel' = 0
    /\ path' = "none"
    /\ container' = 0
    /\ UNCHANGED strategies

\* an exception leaves send_connection_request
Escape ==
    /\ pc' = "done"
    /\ outcome' = NotReturned
    /\ raised' = TRUE
    /\ sel' = 0
    /\ path' = "none"
    /\ container' = 0
    /\ UNCHANGED strategies

\* lines 570-576: an exception reaches the try of send_connection_request
DispatchRaise(kind) ==
    IF DispatchCatches(kind) THEN Return(DispatchError(kind)) ELSE Escape

Goto(p) ==
    /\ pc' = p
    /\ UNCHANGED <<sel, path, container, strategies, outcome, raised>>

\* the call given up once _try_connect_button returned None
GiveUpBeforeFollow == Return(NoActionAvailable)
\* lines 556-558: _try_connect_button returned None
StartFollow ==
    /\ pc' = "follow"
    /\ sel' = 0
    /\ path' = "none"
    /\ container' = 0
    /\ strategies' = Append(strategies, "follow")
    /\ UNCHANGED <<outcome, raised>>

\* the dropdown strategy left out
SkipDropdown == StartFollow

\* lines 690-692: _try_visible_connect_button returned None
StartDropdown ==
    /\ pc' = "dropdown"
    /\ sel' = 0
    /\ path' = "none"
    /\ container' = 0
    /\ strategies' = Append(strategies, "connect_dropdown")
    /\ UNCHANGED <<outcome, raised>>

\* the locals of a Connect attempt go out of scope
EndAttempt ==
    /\ target' = NoButton
    /\ note_text' = <<>>
    /\ note_add_method' = "None"
    /\ typed_text' = <<>>
    /\ send_control' = "none"
    /\ modal_after_send' = "none"
    /\ submit_offered' = {}
    /\ message_actually_sent' = FALSE

\* the selector loop left at once
LeaveVisibleSelectors == StartDropdown

\* the selector loop trying the same selector again
RetryVisibleSelector ==
    /\ pc' = "visible"
    /\ sel' = sel
    /\ path' = "none"
    /\ container' = 0
    /\ UNCHANGED <<strategies, outcome, raised>>

\* `continue` of the selector loop of _try_visible_connect_button, and the
\* `return None` after its last selector
NextVisibleSelector ==
    IF sel < NumVisibleSelectors
    THEN /\ pc' = "visible"
         /\ sel' = sel + 1
         /\ path' = "none"
         /\ container' = 0
         /\ UNCHANGED <<strategies, outcome, raised>>
    ELSE StartDropdown

\* the Connect click followed by the submit step at once
AfterConnectClickNoNote(p, btn) ==
    /\ clicked' = clicked \cup {"connect"}
    /\ outbound' = outbound + 1
    /\ target' = btn
    /\ message_actually_sent' = FALSE
    /\ note_add_method' = "None"
    /\ typed_text' = <<>>
    /\ send_control' = "none"
    /\ modal_after_send' = "none"
    /\ submit_offered' = {}
    /\ path' = p
    /\ container' = 0
    /\ pc' = "send"
    /\ note_text' = <<>>
    /\ UNCHANGED <<sel, strategies, outcome, raised>>

\* lines 794-811 and 1003-1019: a Connect control was clicked by strategy p
AfterConnectClick(p, btn) ==
    /\ clicked' = clicked \cup {"connect"}
    /\ outbound' = outbound + 1
    /\ target' = btn
    /\ message_actually_sent' = FALSE
    /\ note_add_method' = "None"
    /\ typed_text' = <<>>
    /\ send_control' = "none"
    /\ modal_after_send' = "none"
    /\ submit_offered' = {}
    /\ path' = p
    /\ container' = 0
    /\ IF message_provided(message)
       THEN pc' = "note1" /\ note_text' = Clamp(message)
       ELSE pc' = "send" /\ note_text' = <<>>
    /\ UNCHANGED <<sel, strategies, outcome, raised>>

-----------------------------------------------------------------------------
(* send_connection_request: the steps *)

InitDispatch ==
    /\ pc = "idle"
    /\ logged_in = FALSE
    /\ message = <<>>
    /\ page = {}
    /\ status_result = NotRun
    /\ strategies = <<>>
    /\ sel = 0
    /\ path = "none"
    /\ message_actually_sent = FALSE
    /\ clicked = {}
    /\ outbound = 0
    /\ outcome = NotReturned
    /\ raised = FALSE
    /\ prior_request = FALSE
    /\ target = NoButton
    /\ note_text = <<>>
    /\ note_add_method = "None"
    /\ typed_text = <<>>
    /\ container = 0
    /\ send_control = "none"
    /\ modal_after_send = "none"
    /\ submit_offered = {}
    /\ swallowed = FALSE

\* the caller logs in before dispatching (get_bot, test_connection_request)
Login ==
    /\ pc = "idle"
    /\ \E r \in login(logged_in) :
          /\ r.ret \in {"true", "false"}
          /\ logged_in' = r.logged_in
    /\ UNCHANGED <<pc, message, page, status_result, strategies, sel, path,
                   clicked, outbound, outcome, raised, prior_request, container,
                   swallowed>>
    /\ UNCHANGED attempt
    /\ UNCHANGED <<svars, fvars>>

\* a caller invokes send_connection_request(profile_url, message)
Call ==
    /\ pc \in {"idle", "done"}
    /\ ~raised
    /\ \E m \in Messages : message' = m
    /\ prior_request' = /\ pc = "done"
                        /\ "action_taken" \in DOMAIN outcome
                        /\ outcome.action_taken = "connection_request"
    /\ pc' = "gate"
    /\ page' = {}
    /\ status_result' = NotRun
    /\ strategies' = <<>>
    /\ sel' = 0
    /\ path' = "none"
    /\ message_actually_sent' = FALSE
    /\ clicked' = {}
    /\ outbound' = 0
    /\ outcome' = NotReturned
    /\ raised' = FALSE
    /\ target' = NoButton
    /\ note_text' = <<>>
    /\ note_add_method' = "None"
    /\ typed_text' = <<>>
    /\ container' = 0
    /\ send_control' = "none"
    /\ modal_after_send' = "none"
    /\ submit_offered' = {}
    /\ swallowed' = FALSE
    /\ UNCHANGED logged_in
    /\ UNCHANGED <<svars, fvars>>

\* lines 497-504: ensure we are logged in
LoginGate ==
    /\ pc = "gate"
    /\ IF logged_in
       THEN Goto("navigate") /\ UNCHANGED logged_in
       ELSE \E r \in login(logged_in) :
               /\ logged_in' = r.logged_in
               /\ CASE r.ret = "true" -> Goto("navigate")
                    [] r.ret = "false" -> Return(LoginFailed)
                    [] OTHER -> DispatchRaise(r.ret)
    /\ UNCHANGED <<message, prior_request, page, status_result, clicked,
                   outbound, swallowed>>
    /\ UNCHANGED attempt
    /\ UNCHANGED <<svars, fvars>>

\* the call ended when the Status Detector reported nothing
StopAfterNoStatus == Return(NoActionAvailable)
\* what follows the Status Detector when it reported nothing (lines 550-552)
AfterStatusNone ==
    /\ pc' = "visible"
    /\ sel' = 1
    /\ strategies' = <<"connect_visible">>
    /\ UNCHANGED <<outcome, raised, path, container>>

\* lines 542-545: once the page is loaded the Status Detector runs
SkipStatusCheck == AfterStatusNone
AfterNavigate == Goto("detect")

\* lines 506-540: driver.get, scroll_slowly, the wait for the profile
\* actions (its TimeoutException is caught), the debug listing (caught)
Navigate ==
    /\ pc = "navigate"
    /\ \E get \in Results, wait \in Results, pg \in SUBSET Controls :
          IF get # "ok"
          THEN DispatchRaise(get) /\ UNCHANGED page
          ELSE IF wait # "ok" /\ ~CatchesTimeoutException(wait)
          THEN DispatchRaise(wait) /\ UNCHANGED page
          ELSE page' = pg /\ AfterNavigate
    /\ UNCHANGED <<status_result, clicked, outbound, swallowed>>
    /\ UNCHANGED <<callv, attempt>>
    /\ UNCHANGED <<svars, fvars>>

\* line 546, `if status_result:`
NeverStatus(r) == FALSE
HasStatus(r) == r # None

\* lines 542-552: run the Status Detector and return what it found
DetectStatus ==
    /\ pc = "detect"
    /\ \E faults \in [Blocks -> BOOLEAN] :
          LET r == _detect_relationship_status(page, faults) IN
          /\ status_result' = r
          /\ swallowed' = \E b \in Blocks : faults[b]
          /\ IF HasStatus(r) THEN Return(r) ELSE AfterStatusNone
    /\ UNCHANGED <<page, clicked, outbound>>
    /\ UNCHANGED <<callv, attempt>>
    /\ UNCHANGED <<svars, fvars>>

\* lines 729-811: one turn of the selector loop of
\* _try_visible_connect_button, up to the click on the Connect button.
\* find, click: the driver call returns (TRUE) or raises; both handlers of
\* lines 825-830 go on with the next selector.  A find that raises yields no
\* list, and the click is made only on a button that passed the filter.
_try_visible_connect_button ==
    /\ pc = "visible"
    /\ \E find \in BOOLEAN :
       \E btns \in IF find THEN ButtonLists ELSE {<<>>} :
       \E click \in IF FirstValid(btns) # NoButton THEN BOOLEAN ELSE {TRUE} :
          /\ "Connect" \notin page => \A j \in DOMAIN btns : ~btns[j].displayed
          /\ swallowed' = (swallowed \/ ~find \/ ~click \/ StaleSeen(btns))
          /\ LET btn == FirstValid(btns) IN
             IF find /\ btn # NoButton /\ click
             THEN AfterConnectClick("visible", btn)
             ELSE /\ NextVisibleSelector
                  /\ UNCHANGED <<clicked, outbound>>
                  /\ UNCHANGED attempt
    /\ UNCHANGED <<page, status_result>>
    /\ UNCHANGED callv
    /\ UNCHANGED <<svars, fvars>>

\* a note strategy reported success (lines 802-805, 1010-1013)
NoteAdded(r, typed, acts) ==
    /\ message_actually_sent' = TRUE
    /\ note_add_method' = r.method
    /\ typed_text' = typed
    /\ clicked' = clicked \cup acts \cup {"type"}
    /\ pc' = "send"
    /\ container' = 0
    /\ UNCHANGED <<sel, path, strategies, outcome, raised>>

\* a note strategy reported failure and the composer gives up
NoteFailedGivesUp(next, acts) ==
    /\ clicked' = clicked \cup acts
    /\ pc' = "send"
    /\ container' = 0
    /\ UNCHANGED <<message_actually_sent, note_add_method, typed_text>>
    /\ UNCHANGED <<sel, path, strategies, outcome, raised>>

\* a note strategy reported failure: the next one runs
NoteFailed(next, acts) ==
    /\ clicked' = clicked \cup acts
    /\ pc' = next
    /\ container' = IF next = "note3" THEN 1 ELSE 0
    /\ UNCHANGED <<message_actually_sent, note_add_method, typed_text>>
    /\ UNCHANGED <<sel, path, strategies, outcome, raised>>

\* the ways the driver calls of one fill can go: which call raises, and what
FillRuns == {[fail |-> "none", kind |-> "timeout"]}
            \cup [fail : FillSteps, kind : {"timeout", "structural"}]

\* lines 1136-1182, strategy 1: click "Add a note", then fill.
\* button: the button was found and the click on it returned.
_strategy_click_add_note_button ==
    /\ pc = "note1"
    /\ \E button \in BOOLEAN, run \in FillRuns, typed \in Prefixes(note_text) :
          /\ ~button \/ run.fail # "none" => typed = <<>>
          /\ swallowed' = (swallowed \/ (button /\ FillRaised(run)))
          /\ IF ~button
             THEN NoteFailed("note2", {})
             ELSE LET r == _fill_message_textarea(note_text, "click_add_note_button",
                                                  run.fail, run.kind, typed)
                  IN IF r.success
                     THEN NoteAdded(r, typed, {"add_note"})
                     ELSE NoteFailed("note2", {"add_note"} \cup
                                     IF KeysSent(run.fail) THEN {"type"} ELSE {})
    /\ UNCHANGED <<page, status_result, outbound, target, note_text, send_control,
                   modal_after_send, submit_offered>>
    /\ UNCHANGED callv
    /\ UNCHANGED <<svars, fvars>>

\* lines 1184-1196, strategy 2: fill a text area that is already visible
_strategy_find_visible_textarea ==
    /\ pc = "note2"
    /\ \E run \in FillRuns, typed \in Prefixes(note_text) :
          /\ run.fail # "none" => typed = <<>>
          /\ swallowed' = (swallowed \/ FillRaised(run))
          /\ LET r == _fill_message_textarea(note_text, "visible_textarea",
                                             run.fail, run.kind, typed)
             IN IF r.success
                THEN NoteAdded(r, typed, {})
                ELSE NoteFailed("note3", IF KeysSent(run.fail) THEN {"type"} ELSE {})
    /\ UNCHANGED <<page, status_result, outbound, target, note_text, send_control,
                   modal_after_send, submit_offered>>
    /\ UNCHANGED callv
    /\ UNCHANGED <<svars, fvars>>

\* all three strategies failed (lines 1128-1134, 806-809)
AllNoteStrategiesFailed(acts) ==
    /\ clicked' = clicked \cup acts
    /\ pc' = "send"
    /\ container' = 0
    /\ message_actually_sent' = FALSE
    /\ UNCHANGED <<note_add_method, typed_text>>
    /\ UNCHANGED <<sel, path, strategies, outcome, raised>>

\* `continue` of the container loop of strategy 3
NextContainer(acts) ==
    IF container < NumContainerSelectors
    THEN /\ clicked' = clicked \cup acts
         /\ container' = container + 1
         /\ UNCHANGED <<message_actually_sent, note_add_method, typed_text>>
         /\ UNCHANGED <<pc, sel, path, strategies, outcome, raised>>
    ELSE AllNoteStrategiesFailed(acts)

\* lines 1198-1236, strategy 3: one turn of the container loop.
\* box: the container was found displayed and the click on it returned.
_strategy_alternative_add_note_button ==
    /\ pc = "note3"
    /\ \E box \in BOOLEAN, run \in FillRuns, typed \in Prefixes(note_text) :
          /\ ~box \/ run.fail # "none" => typed = <<>>
          /\ swallowed' = (swallowed \/ (box /\ FillRaised(run)))
          /\ IF ~box
             THEN NextContainer({})
             ELSE LET r == _fill_message_textarea(note_text, "alternative_click",
                                                  run.fail, run.kind, typed)
                  IN IF r.success
                     THEN NoteAdded(r, typed, {"container"})
                     ELSE NextContainer({"container"} \cup
                                        IF KeysSent(run.fail) THEN {"type"} ELSE {})
    /\ UNCHANGED <<page, status_result, outbound, target, note_text, send_control,
                   modal_after_send, submit_offered>>
    /\ UNCHANGED callv
    /\ UNCHANGED <<svars, fvars>>

-----------------------------------------------------------------------------
(* _click_send_button *)

\* The two submit buttons of the invite dialog as the selectors see them:
\* the aria-label, the text of the span inside, the button's own text node;
\* texts are sequences of words
Markup(ctl) ==
    IF ctl = "Send"
    THEN [label |-> <<"Send", "invitation">>, span |-> <<"Send">>, text |-> <<>>]
    ELSE [label |-> <<"Send", "without", "a", "note">>,
          span |-> <<"Send", "without", "a", "note">>, text |-> <<>>]

\* XPath contains(): words occurs in s
Has(s, words) ==
    \E i \in 1..(Len(s) + 1) :
       i + Len(words) - 1 <= Len(s) /\ SubSeq(s, i, i + Len(words) - 1) = words

\* len(send_selectors), both lists
NumSendSelectors == 5

\* the first selector of the note branch without its not(contains(..., 'without'))
SelectorMatchesAnySend(note_was_added, i, m) ==
    IF note_was_added
    THEN CASE i = 1 -> Has(m.label, <<"Send">>)
           [] i = 2 -> m.label = <<"Send", "invitation">>
           [] i = 3 -> m.span = <<"Send">>
           [] i = 4 -> Has(m.span \o m.text, <<"Send", "now">>)
           [] OTHER -> m.text = <<"Send">>
    ELSE CASE i = 1 -> Has(m.span \o m.text, <<"Send", "without", "a", "note">>)
           [] i = 2 -> Has(m.label, <<"Send", "without">>)
           [] i = 3 -> Has(m.span, <<"Send">>)
           [] i = 4 -> Has(m.label, <<"Send">>)
           [] OTHER -> m.text = <<"Send">>

\* lines 1333-1349: selector i of the list of the branch matches a button
\* with markup m
SelectorMatches(note_was_added, i, m) ==
    IF note_was_added
    THEN CASE i = 1 -> Has(m.label, <<"Send">>) /\ ~Has(m.label, <<"without">>)
           [] i = 2 -> m.label = <<"Send", "invitation">>
           [] i = 3 -> m.span = <<"Send">>
           [] i = 4 -> Has(m.span \o m.text, <<"Send", "now">>)
           [] OTHER -> m.text = <<"Send">>
    ELSE CASE i = 1 -> Has(m.span \o m.text, <<"Send", "without", "a", "note">>)
           [] i = 2 -> Has(m.label, <<"Send", "without">>)
           [] i = 3 -> Has(m.span, <<"Send">>)
           [] i = 4 -> Has(m.label, <<"Send">>)
           [] OTHER -> m.text = <<"Send">>

\* lines 1354-1364: the control the selector list resolves to when the
\* controls of avail are clickable ("none": every selector timed out)
SendTarget(note_was_added, avail) ==
    LET resolves(i) == \E c \in avail : SelectorMatches(note_was_added, i, Markup(c))
    IN  IF \E i \in 1..NumSendSelectors : resolves(i)
        THEN LET first == CHOOSE i \in 1..NumSendSelectors :
                             resolves(i) /\ \A k \in 1..(i - 1) : ~resolves(k)
             IN  CHOOSE c \in avail : SelectorMatches(note_was_added, first, Markup(c))
        ELSE "none"

\* SendTarget on each branch for each set of clickable controls
SendTargets ==
    [note_was_added \in BOOLEAN, avail \in SUBSET SendControls |->
        SendTarget(note_was_added, avail)]

\* the verdict had the look at the dialog decided it: True only when the
\* dialog is gone
SentVerdictModalClosed(modal) == modal = "closed"
\* lines 1381-1397: the return value once the submit control was clicked;
\* modal is what the look at the invite dialog found ("open": still
\* displayed, "closed": not found or not displayed, "error": the look raised)
SentVerdict(modal) == TRUE

\* the verdict returned with no click on a submit control
SendNotClicked(ctl, modal, avail) ==
    /\ send_control' = "none"
    /\ modal_after_send' = modal
    /\ submit_offered' = avail
    /\ clicked' = clicked
    /\ UNCHANGED <<target, note_text, note_add_method, typed_text,
                   message_actually_sent>>
\* the submit click was made and the call returned the verdict
SendClicked(ctl, modal, avail) ==
    /\ send_control' = ctl
    /\ modal_after_send' = modal
    /\ submit_offered' = avail
    /\ clicked' = clicked \cup {"send"}
    /\ UNCHANGED <<target, note_text, note_add_method, typed_text,
                   message_actually_sent>>

\* lines 1318-1406 followed by the caller's lines 814-830 or 1022-1036.
\* calls: the waits, the text read and the click return (TRUE) or one of
\* them raises; url: the read of driver.current_url returns or raises.  The
\* dialog is looked at, and the url read, only after the click.
_click_send_button ==
    /\ pc = "send"
    /\ \E calls \in BOOLEAN, avail \in SUBSET SendControls,
          modal \in {"open", "closed", "error"}, url \in BOOLEAN :
          LET ctl == SendTargets[message_actually_sent, avail]
              hit == calls /\ ctl # "none"
              ret == hit /\ SentVerdict(modal)
              request == ConnectionRequest(message_actually_sent, note_add_method,
                                           message)
          IN
          /\ ~hit => modal = "closed" /\ url
          /\ swallowed' = (swallowed \/ ~url)
          /\ IF path = "visible"
             THEN IF ret /\ url
                  THEN Return(request) /\ SendClicked(ctl, modal, avail)
                  ELSE /\ NextVisibleSelector
                       /\ EndAttempt
                       /\ clicked' = IF hit THEN clicked \cup {"send"} ELSE clicked
             ELSE IF ret
                  THEN IF url
                       THEN Return(request) /\ SendClicked(ctl, modal, avail)
                       ELSE /\ StartFollow
                            /\ EndAttempt
                            /\ clicked' = clicked \cup {"send"}
                  ELSE /\ Return(CouldNotClickSend)
                       /\ clicked' = IF hit THEN clicked \cup {"send"} ELSE clicked
                       /\ UNCHANGED attempt
    /\ UNCHANGED <<page, status_result, outbound>>
    /\ UNCHANGED callv
    /\ UNCHANGED <<svars, fvars>>

-----------------------------------------------------------------------------
(* _try_connect_in_dropdown *)

\* lines 845-926: find the More button of the profile actions and click it.
\* more: a More button was found, its location read and the click returned.
_try_connect_in_dropdown_more ==
    /\ pc = "dropdown"
    /\ \E more \in BOOLEAN :
          IF more
          THEN clicked' = clicked \cup {"more"} /\ Goto("dropdown_connect")
          ELSE StartFollow /\ UNCHANGED clicked
    /\ UNCHANGED <<page, status_result, outbound, swallowed>>
    /\ UNCHANGED <<callv, attempt>>
    /\ UNCHANGED <<svars, fvars>>

\* lines 960-1019: find Connect in the open dropdown and click it.
\* find: what the waits over connect_selectors come to; escape, click: the
\* driver call returns or raises.
_try_connect_in_dropdown_connect ==
    /\ pc = "dropdown_connect"
    /\ \E find \in Results, escape \in BOOLEAN, click \in BOOLEAN :
          /\ swallowed' = \/ swallowed
                          \/ find # "ok" /\ ~CatchesTimeoutException(find)
                          \/ CatchesTimeoutException(find) /\ ~escape
                          \/ find = "ok" /\ ~click
          /\ IF find = "ok" /\ click
             THEN AfterConnectClick("dropdown", NoButton)
             ELSE /\ StartFollow
                  /\ clicked' = IF CatchesTimeoutException(find) /\ escape
                                THEN clicked \cup {"escape"} ELSE clicked
                  /\ UNCHANGED outbound
                  /\ UNCHANGED attempt
    /\ UNCHANGED <<page, status_result>>
    /\ UNCHANGED callv
    /\ UNCHANGED <<svars, fvars>>

-----------------------------------------------------------------------------
(* _try_follow_button followed by lines 559-568 *)

\* lines 1081-1083 and 559-568: _try_follow_button returned None
FollowRaises == DispatchRaise("structural")
FollowFails == Return(NoActionAvailable)

\* find: a Follow button became clickable; click, url: the driver call
\* returns or raises
_try_follow_button ==
    /\ pc = "follow"
    /\ \E find \in BOOLEAN, click \in BOOLEAN, url \in BOOLEAN :
          /\ find => page \cap {"Follow", "Following"} # {}
          /\ swallowed' = (swallowed \/ (find /\ ~click) \/ (find /\ click /\ ~url))
          /\ IF find /\ click
             THEN /\ clicked' = clicked \cup {"follow"}
                  /\ outbound' = outbound + 1
                  /\ IF url THEN Return(Followed) ELSE FollowFails
             ELSE /\ FollowFails
                  /\ UNCHANGED <<clicked, outbound>>
    /\ UNCHANGED <<page, status_result>>
    /\ UNCHANGED <<callv, attempt>>
    /\ UNCHANGED <<svars, fvars>>

-----------------------------------------------------------------------------

Next ==
    \/ Login
    \/ Call
    \/ LoginGate
    \/ Navigate
    \/ DetectStatus
    \/ _try_visible_connect_button
    \/ _strategy_click_add_note_button
    \/ _strategy_find_visible_textarea
    \/ _strategy_alternative_add_note_button
    \/ _click_send_button
    \/ _try_connect_in_dropdown_more
    \/ _try_connect_in_dropdown_connect
    \/ _try_follow_button

-----------------------------------------------------------------------------
(* app.py: the control server.  Flask serves each request on a thread of   *)
(* its own; the threads share the global bot and bot_lock.                 *)

Threads == 1..NumThreads

\* `bot = None`
NoBot == 0

\* a get_bot call that has not looked at a bot yet
NotVetted == [how |-> "none", bot |-> NoBot]

InitServer ==
    /\ bot = NoBot
    /\ bot_lock = 0
    /\ tpc = [t \in Threads |-> "idle"]
    /\ bot_instance = [t \in Threads |-> NoBot]
    /\ browsers = {}
    /\ dead = {}
    /\ made = 0
    /\ vetted = [t \in Threads |-> NotVetted]
    /\ entry_dead = [t \in Threads |-> {}]
    /\ failed = [t \in Threads |-> NoBot]
    /\ exc = [t \in Threads |-> "none"]
    /\ response = [t \in Threads |-> "none"]

\* the browser of bot b stops answering once its session is lost
AnswersWhileRunning(b) == b \in browsers
\* a driver call on bot b answers
Answers(b) == b \in browsers /\ b \notin dead

\* what reaches the except block of send_connection: a driver exception,
\* the AttributeError of a call on None, the Exception of line 47, a body
\* that request.json cannot parse
ServerKinds == Kinds \cup {"attribute", "login", "request"}

\* the test of line 153 on str(e): the messages of session faults name the
\* session, chrome or the driver, those of other faults do not
MentionsSession(kind) == kind = "session"

\* a thread goes to position p
At(t, p) == tpc' = [tpc EXCEPT ![t] = p]

\* an exception of kind kind reaches the except block of lines 146-169,
\* which looks at nothing of it but the words of str(e)
Handler(t, kind) ==
    /\ kind \in ServerKinds
    /\ At(t, "except")
    /\ exc' = [exc EXCEPT ![t] = IF MentionsSession(kind) THEN "session" ELSE "other"]

\* a request arrives: /send-connection (validated, line 129, or with a body
\* that request.json rejects, line 92) or /close
Request(t) ==
    /\ tpc[t] = "idle"
    /\ \/ \E p \in {"get_bot", "close"} : At(t, p) /\ UNCHANGED exc
       \/ Handler(t, "request")
    /\ UNCHANGED <<bot, bot_lock, bot_instance, browsers, dead, made, vetted,
                   entry_dead, failed, response>>
    /\ UNCHANGED <<dvars, fvars>>

\* line 21 of get_bot: `with bot_lock:` is entered
get_bot_enter(t) ==
    /\ tpc[t] = "get_bot"
    /\ bot_lock = 0
    /\ bot_lock' = t
    /\ At(t, "health")
    /\ vetted' = [vetted EXCEPT ![t] = NotVetted]
    /\ entry_dead' = [entry_dead EXCEPT ![t] = dead \cap {bot}]
    /\ UNCHANGED <<bot, bot_instance, browsers, dead, made, failed, exc, response>>
    /\ UNCHANGED <<dvars, fvars>>

\* line 37, `bot = None`
KeepsFailedBot == bot
Dropped == NoBot

\* lines 23-37 of get_bot: the health check.  A bot that answers goes to
\* the return of line 28; one that does not is closed and dropped (quit:
\* driver.quit() ended the browser, or raised, which is ignored).
get_bot_health_check(t) ==
    /\ tpc[t] = "health"
    /\ IF bot # NoBot /\ Answers(bot)
       THEN /\ vetted' = [vetted EXCEPT ![t] = [how |-> "health", bot |-> bot]]
            /\ At(t, "return")
            /\ UNCHANGED <<bot, browsers, failed>>
       ELSE IF bot # NoBot
       THEN /\ \E quit \in BOOLEAN :
                  /\ ~quit => bot \in dead
                  /\ browsers' = IF quit THEN browsers \ {bot} ELSE browsers
            /\ failed' = [failed EXCEPT ![t] = bot]
            /\ bot' = Dropped
            /\ At(t, "create")
            /\ UNCHANGED vetted
       ELSE /\ At(t, "create")
            /\ UNCHANGED <<bot, browsers, failed, vetted>>
    /\ UNCHANGED <<bot_lock, bot_instance, dead, made, entry_dead, exc, response>>
    /\ UNCHANGED <<dvars, fvars>>

\* lines 40-42 of get_bot: `if bot is None:` LinkedInBot() starts a
\* browser, or raises
get_bot_create(t) ==
    /\ tpc[t] = "create"
    /\ IF bot # NoBot
       THEN /\ At(t, "return")
            /\ UNCHANGED <<made, bot, browsers, bot_lock, exc>>
       ELSE \/ /\ made < MaxBots
               /\ made' = made + 1
               /\ bot' = made + 1
               /\ browsers' = browsers \cup {made + 1}
               /\ At(t, "login")
               /\ UNCHANGED <<bot_lock, exc>>
            \/ /\ \E kind \in Kinds : Handler(t, kind)
               /\ bot_lock' = 0
               /\ UNCHANGED <<made, bot, browsers>>
    /\ UNCHANGED <<bot_instance, dead, vetted, entry_dead, failed,
                   response>>
    /\ UNCHANGED <<dvars, fvars>>

\* lines 44-49 of get_bot: bot.login() on the new bot, whose driver has to
\* answer for login to return.  On a login that fails the global is
\* cleared, the browser left running, and line 47 raises.
get_bot_login(t) ==
    /\ tpc[t] = "login"
    /\ IF bot = NoBot
       THEN /\ Handler(t, "attribute")
            /\ bot_lock' = 0
            /\ UNCHANGED <<bot, vetted>>
       ELSE \E r \in {"true", "false"} \cup Kinds :
               /\ ~Answers(bot) => r = "session"
               /\ CASE r = "true" ->
                         /\ vetted' = [vetted EXCEPT
                                         ![t] = [how |-> "fresh", bot |-> bot]]
                         /\ At(t, "return")
                         /\ UNCHANGED <<bot, bot_lock, exc>>
                    [] r = "false" ->
                         /\ bot' = NoBot
                         /\ bot_lock' = 0
                         /\ Handler(t, "login")
                         /\ UNCHANGED vetted
                    [] OTHER ->
                         /\ bot_lock' = 0
                         /\ Handler(t, r)
                         /\ UNCHANGED <<bot, vetted>>
    /\ UNCHANGED <<bot_instance, browsers, dead, made, entry_dead, failed, response>>
    /\ UNCHANGED <<dvars, fvars>>

\* lines 28 and 51 of get_bot, `return bot`: the global is read, the lock
\* released, and line 129 binds bot_instance
get_bot_return(t) ==
    /\ tpc[t] = "return"
    /\ bot_instance' = [bot_instance EXCEPT ![t] = bot]
    /\ bot_lock' = 0
    /\ At(t, "dispatch")
    /\ vetted' = [vetted EXCEPT ![t] = NotVetted]
    /\ entry_dead' = [entry_dead EXCEPT ![t] = {}]
    /\ failed' = [failed EXCEPT ![t] = NoBot]
    /\ UNCHANGED <<bot, browsers, dead, made, exc, response>>
    /\ UNCHANGED <<dvars, fvars>>

\* the status codes send_connection can answer with after
\* send_connection_request ran on bot b (lines 132-144): the dicts with
\* success True are built from a read of driver.current_url
DispatchResponses(b) == IF Answers(b) THEN {"200", "500"} ELSE {"500"}

\* lines 132-144: bot_instance.send_connection_request(...) has run on the
\* thread and returned its dict, and the response is sent; on None the call
\* raises AttributeError
send_connection_returns(t) ==
    /\ tpc[t] = "dispatch"
    /\ IF bot_instance[t] = NoBot
       THEN Handler(t, "attribute") /\ UNCHANGED response
       ELSE /\ \E r \in DispatchResponses(bot_instance[t]) :
                  response' = [response EXCEPT ![t] = r]
            /\ At(t, "respond")
            /\ UNCHANGED exc
    /\ bot_instance' = [bot_instance EXCEPT ![t] = NoBot]
    /\ UNCHANGED <<bot, bot_lock, browsers, dead, made, failed, vetted, entry_dead>>
    /\ UNCHANGED <<dvars, fvars>>

\* lines 146-169: the except block.  When str(e) names the session the bot
\* is closed and dropped under bot_lock; the answer is 500 in every case.
send_connection_except(t) ==
    /\ tpc[t] = "except"
    /\ IF exc[t] = "session"
       THEN /\ bot_lock = 0
            /\ \E quit \in BOOLEAN :
                  /\ ~quit => bot \in dead
                  /\ browsers' = IF quit THEN browsers \ {bot} ELSE browsers
            /\ bot' = NoBot
       ELSE UNCHANGED <<bot, browsers>>
    /\ exc' = [exc EXCEPT ![t] = "none"]
    /\ response' = [response EXCEPT ![t] = "500"]
    /\ At(t, "respond")
    /\ vetted' = [vetted EXCEPT ![t] = NotVetted]
    /\ entry_dead' = [entry_dead EXCEPT ![t] = {}]
    /\ failed' = [failed EXCEPT ![t] = NoBot]
    /\ UNCHANGED <<bot_lock, bot_instance, dead, made>>
    /\ UNCHANGED <<dvars, fvars>>

\* lines 853-854 of close_bot: `if bot: bot.close()`, bot_lock not taken.
\* A driver.quit() that raises ends the request with the bot kept.
close_bot(t) ==
    /\ tpc[t] = "close"
    /\ IF bot = NoBot
       THEN /\ At(t, "respond")
            /\ response' = [response EXCEPT ![t] = "200"]
            /\ UNCHANGED browsers
       ELSE \E quit \in BOOLEAN :
                  /\ ~quit => bot \in dead
                  /\ IF quit
                     THEN /\ browsers' = browsers \ {bot}
                          /\ At(t, "close_clear")
                          /\ UNCHANGED response
                     ELSE /\ At(t, "respond")
                          /\ response' = [response EXCEPT ![t] = "500"]
                          /\ UNCHANGED browsers
    /\ UNCHANGED <<bot, bot_lock, bot_instance, dead, made, vetted, entry_dead,
                   failed, exc>>
    /\ UNCHANGED <<dvars, fvars>>

\* line 855 of close_bot: `bot = None`
close_bot_clear(t) ==
    /\ tpc[t] = "close_clear"
    /\ bot' = NoBot
    /\ At(t, "respond")
    /\ response' = [response EXCEPT ![t] = "200"]
    /\ UNCHANGED <<bot_lock, bot_instance, browsers, dead, made, vetted,
                   entry_dead, failed, exc>>
    /\ UNCHANGED <<dvars, fvars>>

\* the response has gone out and the request thread ends
Responded(t) ==
    /\ tpc[t] = "respond"
    /\ At(t, "idle")
    /\ response' = [response EXCEPT ![t] = "none"]
    /\ UNCHANGED <<bot, bot_lock, bot_instance, browsers, dead, made, vetted,
                   entry_dead, failed, exc>>
    /\ UNCHANGED <<dvars, fvars>>

\* the environment: the session of a running browser stops answering
SessionDies ==
    /\ \E b \in browsers \ dead : dead' = dead \cup {b}
    /\ UNCHANGED <<bot, bot_lock, tpc, bot_instance, browsers, made, vetted,
                   entry_dead, failed, exc, response>>
    /\ UNCHANGED <<dvars, fvars>>

NextServer ==
    \/ \E t \in Threads : Request(t)
    \/ \E t \in Threads : get_bot_enter(t)
    \/ \E t \in Threads : get_bot_health_check(t)
    \/ \E t \in Threads : get_bot_create(t)
    \/ \E t \in Threads : get_bot_login(t)
    \/ \E t \in Threads : get_bot_return(t)
    \/ \E t \in Threads : send_connection_returns(t)
    \/ \E t \in Threads : send_connection_except(t)
    \/ \E t \in Threads : close_bot(t)
    \/ \E t \in Threads : close_bot_clear(t)
    \/ \E t \in Threads : Responded(t)
    \/ SessionDies

-----------------------------------------------------------------------------
(* app.py: comment_on_post, the handler of POST /comment-on-post           *)

\* the selectors tried for the comment box, the typing and submit methods
NumBoxSelectors == 4
NumTypingMethods == 4
NumSubmitMethods == 5

\* comment_text values: missing, blank, a short comment, one with a blank
\* in front
CommentTexts == { <<>>, <<" ">>, <<"H", "i">>, <<" ", "H", "i">> }

\* what a read of the box's innerHTML can give: nothing, a blank, the
\* editor's empty paragraph, the text, the text inside a paragraph
Paragraph == <<"<", "p", ">">>
Contents(text) ==
    {<<>>, <<" ">>, Paragraph, text, strip(text), Paragraph \o text \o Paragraph}

NoResponse == [status |-> 0, success |-> FALSE]

InitComment ==
    /\ cpc = "idle"
    /\ comment_text = <<>>
    /\ comment_clicked = FALSE
    /\ comment_box = 0
    /\ comment_method = 0
    /\ typing_success = FALSE
    /\ submit_success = FALSE
    /\ submit_run = {}
    /\ comment_success = FALSE
    /\ verify_read = "none"
    /\ comment_response = NoResponse

\* the flow's own variables
flow == <<comment_clicked, comment_box, comment_method, typing_success,
          submit_success, submit_run, comment_success, verify_read>>

\* lines 362-382: a body check answers 400
BadRequest ==
    /\ cpc' = "done"
    /\ comment_response' = [status |-> 400, success |-> FALSE]

\* lines 836-847: the except block of the handler
CommentHandlerExcept ==
    /\ cpc' = "done"
    /\ comment_response' = [status |-> 500, success |-> FALSE]

\* lines 826-834: the response built from comment_success
CommentRespond(ok) ==
    /\ cpc' = "done"
    /\ comment_response' = [status |-> IF ok THEN 200 ELSE 500, success |-> ok]

\* lines 359-391: a request arrives and its body is checked
CommentRequest ==
    /\ cpc \in {"idle", "done"}
    /\ \E body \in {"unreadable", "empty", "no_url", "ok"}, text \in CommentTexts :
          /\ comment_text' = (IF body = "unreadable" THEN <<>> ELSE text)
          /\ CASE body = "unreadable" -> CommentHandlerExcept
               [] body \in {"empty", "no_url"} -> BadRequest
               [] OTHER -> IF text = <<>>
                           THEN BadRequest
                           ELSE cpc' = "get_bot" /\ comment_response' = NoResponse
    /\ comment_clicked' = FALSE
    /\ comment_box' = 0
    /\ comment_method' = 0
    /\ typing_success' = FALSE
    /\ submit_success' = FALSE
    /\ submit_run' = {}
    /\ comment_success' = FALSE
    /\ verify_read' = "none"
    /\ UNCHANGED <<dvars, svars, detector, clamp_call, login_check>>

\* lines 393-410: get_bot(), driver.get(linkedin_url), scroll_slowly; an
\* exception of any of them reaches the handler's except block
CommentNavigate ==
    /\ cpc = "get_bot"
    /\ \E got \in Results \cup {"login"}, get \in Results :
          IF got = "ok" /\ get = "ok"
          THEN cpc' = "find_buttons" /\ UNCHANGED comment_response
          ELSE CommentHandlerExcept
    /\ UNCHANGED <<comment_text, flow>>
    /\ UNCHANGED <<dvars, svars, detector, clamp_call, login_check>>

\* lines 413-418, 817-824: the comment buttons are looked up; with none, or
\* with an exception (caught at line 821), the request answers at once
CommentFindButtons ==
    /\ cpc = "find_buttons"
    /\ \E r \in {"found", "none"} \cup Kinds :
          IF r = "found"
          THEN cpc' = "click" /\ UNCHANGED comment_response
          ELSE CommentRespond(comment_success)
    /\ UNCHANGED <<comment_text, flow>>
    /\ UNCHANGED <<dvars, svars, detector, clamp_call, login_check>>

\* lines 422-438: the first button is clicked, by click() or by script
CommentClick ==
    /\ cpc = "click"
    /\ \E normal \in BOOLEAN, js \in BOOLEAN :
          /\ comment_clicked' = (normal \/ js)
          /\ IF normal \/ js
             THEN cpc' = "find_box" /\ UNCHANGED comment_response
             ELSE CommentRespond(comment_success)
    /\ UNCHANGED <<comment_text, comment_box, comment_method, typing_success,
                   submit_success, submit_run, comment_success, verify_read>>
    /\ UNCHANGED <<dvars, svars, detector, clamp_call, login_check>>

\* the first selector whose find_elements gave a box, 0 when none did
RECURSIVE FirstBox(_, _)
FirstBox(found, i) ==
    IF i > NumBoxSelectors THEN 0
    ELSE IF found[i] = "found" THEN i ELSE FirstBox(found, i + 1)

\* lines 440-470: the comment box is looked up by the selectors in order
\* (an exception goes on to the next selector) and clicked to be focused
\* (an exception is caught)
CommentFindBox ==
    /\ cpc = "find_box"
    /\ \E found \in [1..NumBoxSelectors -> {"found", "empty", "raises"}] :
          /\ comment_box' = FirstBox(found, 1)
          /\ IF FirstBox(found, 1) # 0
             THEN cpc' = "type" /\ comment_method' = 1 /\ UNCHANGED comment_response
             ELSE CommentRespond(comment_success) /\ UNCHANGED comment_method
    /\ UNCHANGED <<comment_text, comment_clicked, typing_success,
                   submit_success, submit_run, comment_success, verify_read>>
    /\ UNCHANGED <<dvars, svars, detector, clamp_call, login_check>>

\* the checks of lines 493 (method 1), 511, 530 and 556 (methods 2 to 4)
\* on the content read back
TypingVerified(m, content, text) ==
    IF m = 1
    THEN content # <<>> /\ Contains(content, text)
    ELSE content # <<>> /\ Len(strip(content)) > 0

\* the submit methods reached with typing_success still False
SubmitUnverified ==
    /\ cpc' = "submit"
    /\ comment_method' = 1
    /\ UNCHANGED comment_response
\* lines 566-569 and 821-824: `raise Exception("Failed to type comment -
\* all methods exhausted")`, caught at line 821, and the response of line 826
TypingExhausted ==
    /\ CommentRespond(comment_success)
    /\ UNCHANGED comment_method

\* lines 472-564: typing method m writes the comment and reads the box
\* back; an exception of the method is caught
CommentType(m) ==
    /\ cpc = "type"
    /\ comment_method = m
    /\ ~typing_success
    /\ \E r \in Results, content \in Contents(comment_text) :
          LET ok == r = "ok" /\ TypingVerified(m, content, comment_text) IN
          /\ typing_success' = ok
          /\ IF ok
             THEN cpc' = "submit" /\ comment_method' = 1 /\ UNCHANGED comment_response
             ELSE IF m < NumTypingMethods
             THEN comment_method' = m + 1 /\ UNCHANGED <<cpc, comment_response>>
             ELSE TypingExhausted
    /\ UNCHANGED <<comment_text, comment_clicked, comment_box, submit_success,
                   submit_run, comment_success, verify_read>>
    /\ UNCHANGED <<dvars, svars, detector, clamp_call, login_check>>

\* methods 1 and 3 act on the submit button find_elements gave them
NeedsButton(m) == m \in {1, 3}

\* lines 571-758: submit method m (the scroll of lines 575-584 before the
\* first); a method sets submit_success when it ran without an exception,
\* methods 1 and 3 only when they found the button
CommentSubmit(m) ==
    /\ cpc = "submit"
    /\ comment_method = m
    /\ ~submit_success
    /\ submit_run' = submit_run \cup {m}
    /\ \E r \in Results, buttons \in BOOLEAN :
          LET ok == r = "ok" /\ (NeedsButton(m) => buttons) IN
          /\ submit_success' = ok
          /\ IF ok
             THEN cpc' = "verify" /\ UNCHANGED <<comment_method, comment_response>>
             ELSE IF m < NumSubmitMethods
             THEN comment_method' = m + 1 /\ UNCHANGED <<cpc, comment_response>>
             ELSE CommentRespond(comment_success) /\ UNCHANGED comment_method
    /\ UNCHANGED <<comment_text, comment_clicked, comment_box, typing_success,
                   comment_success, verify_read>>
    /\ UNCHANGED <<dvars, svars, detector, clamp_call, login_check>>

\* lines 775-781 and 793-794: the comment is taken as posted when the box read
\* back is empty or no longer holds the comment
BoxCleared(content, text) ==
    LET current_text == strip(content) IN
    Len(current_text) = 0 \/ ~Contains(current_text, strip(text))

\* lines 763-815: the check after the submit.  raises1, raises2: the first
\* and the second read of the box raise; the bare except of line 800 takes
\* a read that raises as a box that closed
CommentVerify ==
    /\ cpc = "verify"
    /\ \E raises1 \in BOOLEAN, raises2 \in BOOLEAN,
          read1 \in Contents(comment_text), read2 \in Contents(comment_text) :
          LET unreadable == raises1 \/ (~BoxCleared(read1, comment_text) /\ raises2)
              ok == \/ unreadable
                    \/ BoxCleared(read1, comment_text)
                    \/ BoxCleared(read2, comment_text)
          IN /\ comment_success' = ok
             /\ verify_read' = IF unreadable THEN "unreadable"
                               ELSE IF ok THEN "cleared" ELSE "still_there"
             /\ CommentRespond(ok)
    /\ UNCHANGED <<comment_text, comment_clicked, comment_box, comment_method,
                   typing_success, submit_success, submit_run>>
    /\ UNCHANGED <<dvars, svars, detector, clamp_call, login_check>>

NextComment ==
    \/ CommentRequest
    \/ CommentNavigate
    \/ CommentFindButtons
    \/ CommentClick
    \/ CommentFindBox
    \/ \E m \in 1..NumTypingMethods : CommentType(m)
    \/ \E m \in 1..NumSubmitMethods : CommentSubmit(m)
    \/ CommentVerify

-----------------------------------------------------------------------------
(* The Status Detector called on its own, on every page and every pattern  *)
(* of lookups that raise                                                   *)

NoCall == [tag |-> "no_call"]

DetectorCalls ==
    [page : SUBSET Controls, faults : [Blocks -> BOOLEAN], result : {NotRun}]

RunDetector ==
    /\ detector # NoCall
    /\ detector.result = NotRun
    /\ detector' = [detector EXCEPT
                      !.result = _detect_relationship_status(detector.page,
                                                             detector.faults)]
    /\ UNCHANGED <<dvars, svars, clamp_call, cvars, login_check>>

NextDetect == RunDetector

-----------------------------------------------------------------------------
(* The clamp of _add_connection_note called on its own, on messages around *)
(* the limit                                                               *)

\* the characters of the messages: letters by position, dots, blanks
Patterns == {"letters", "dots", "blanks", "mixed"}

CharAt(p, i) ==
    CASE p = "letters" -> IF i % 2 = 0 THEN "a" ELSE "b"
      [] p = "dots" -> "."
      [] p = "blanks" -> IF i = 1 THEN "x" ELSE " "
      [] OTHER -> IF i % 3 = 0 THEN "." ELSE IF i % 3 = 1 THEN "H" ELSE "i"

\* lengths: short notes, and every length from below NoteKeep to above NoteLimit
Lengths == 0..3 \cup (NoteKeep - 3)..(NoteLimit + MaxExtra)

LongMessages == { [i \in 1..n |-> CharAt(p, i)] : n \in Lengths, p \in Patterns }

ClampCalls == [message : LongMessages, result : {<<>>}, returned : {FALSE}]

\* lines 1108-1111: the text the strategies are called with
ClampNote ==
    /\ clamp_call # NoCall
    /\ ~clamp_call.returned
    /\ clamp_call' = [clamp_call EXCEPT !.result = Clamp(clamp_call.message),
                                        !.returned = TRUE]
    /\ UNCHANGED <<dvars, svars, detector, cvars, login_check>>

NextClamp == ClampNote

-----------------------------------------------------------------------------
(* LinkedInBot.check_login_status called on its own, on every URL and      *)
(* every pattern of elements and of driver calls that raise                *)

\* current_url after the load, by path segments: the feed, a profile, the
\* login page (also as /uas/login, and capitalised), a security checkpoint,
\* the authwall, the signup page
Urls ==
    { <<"feed">>, <<"Feed">>, <<"in", "someone">>, <<"login">>, <<"uas", "login">>,
      <<"Login">>, <<"checkpoint", "challenge">>, <<"Checkpoint">>,
      <<"authwall">>, <<"signup">> }

\* str.lower() on a segment
Lower(seg) ==
    CASE seg = "Feed" -> "feed"
      [] seg = "Login" -> "login"
      [] seg = "Checkpoint" -> "checkpoint"
      [] OTHER -> seg

lower(url) == [i \in DOMAIN url |-> Lower(url[i])]

\* lines 233, 239, 246: the URL tests, the first two on current_url.lower(),
\* the third on current_url as it is
RedirectedToLogin(url) ==
    Contains(lower(url), <<"login">>) \/ Contains(url, <<"uas", "login">>)
OnCheckpoint(url) == Contains(lower(url), <<"checkpoint">>)
OnAuthPage(url) == Contains(url, <<"authwall">>) \/ Contains(url, <<"signup">>)

\* line 311: `'feed' in current_url.lower()`
OnFeed(url) == Contains(lower(url), <<"feed">>)

\* what a lookup of a logged-in element comes to: found and displayed,
\* found and hidden, not found (TimeoutException, NoSuchElementException),
\* another exception
Lookups == {"displayed", "hidden", "absent", "raises"}

\* line 207: `'timeout' in str(e).lower()` on the exception of driver.get
MentionsTimeout(kind) == kind = "timeout"

\* `return True` with the flag set
ReturnTrue(flag) == [ret |-> TRUE, logged_in |-> TRUE]

\* `return False` with the flag left as it was
ReturnFalseFlagKept(flag) == [ret |-> FALSE, logged_in |-> flag]
\* `self.logged_in = False; return False`
ReturnFalse(flag) == [ret |-> FALSE, logged_in |-> FALSE]

\* lines 186-351.  c.flag: logged_in before the call; c.get: what
\* driver.get comes to; c.usable: current_url answers after a load that
\* timed out; c.url_raises, c.url: the read of current_url; c.me, c.nav,
\* c.search: the lookups of methods 1 to 3; c.posts: the feed posts found,
\* or the exception of their lookup
check_login_status(c) ==
    IF c.get # "ok" /\ ~MentionsTimeout(c.get) THEN ReturnFalse(c.flag)
    ELSE IF c.get # "ok" /\ ~c.usable THEN ReturnFalse(c.flag)
    ELSE IF c.url_raises THEN ReturnFalse(c.flag)
    ELSE IF RedirectedToLogin(c.url) THEN ReturnFalse(c.flag)
    ELSE IF OnCheckpoint(c.url) THEN ReturnFalse(c.flag)
    ELSE IF OnAuthPage(c.url) THEN ReturnFalse(c.flag)
    ELSE IF c.me = "displayed" THEN ReturnTrue(c.flag)
    ELSE IF c.nav = "displayed" THEN ReturnTrue(c.flag)
    ELSE IF c.search = "displayed" THEN ReturnTrue(c.flag)
    ELSE IF OnFeed(c.url) /\ c.posts = "some" THEN ReturnTrue(c.flag)
    ELSE ReturnFalse(c.flag)

NotChecked == [ret |-> FALSE, logged_in |-> FALSE]

LoginChecks ==
    [flag : BOOLEAN, get : Results, usable : BOOLEAN, url_raises : BOOLEAN,
     url : Urls, me : Lookups, nav : Lookups, search : Lookups,
     posts : {"some", "none", "raises"}, returned : {FALSE}, result : {NotChecked}]

RunLoginCheck ==
    /\ login_check # NoCall
    /\ ~login_check.returned
    /\ login_check' = [login_check EXCEPT !.result = check_login_status(login_check),
                                          !.returned = TRUE]
    /\ UNCHANGED <<dvars, svars, detector, clamp_call, cvars>>

NextLoginCheck == RunLoginCheck

-----------------------------------------------------------------------------
(* Specifications *)

Init ==
    /\ InitDispatch /\ InitServer /\ InitComment
    /\ detector = NoCall /\ clamp_call = NoCall /\ login_check = NoCall

InitDetect ==
    /\ InitDispatch /\ InitServer /\ InitComment
    /\ detector \in DetectorCalls /\ clamp_call = NoCall /\ login_check = NoCall

InitClamp ==
    /\ InitDispatch /\ InitServer /\ InitComment
    /\ detector = NoCall /\ clamp_call \in ClampCalls /\ login_check = NoCall

\* one bot serving dispatch calls one after the other
Spec == Init /\ [][Next]_vars

\* the request threads of the control server
SpecServer == Init /\ [][NextServer]_vars

\* the Status Detector as a function of the page
SpecDetect == InitDetect /\ [][NextDetect]_vars

\* the clamp as a function of the message
SpecClamp == InitClamp /\ [][NextClamp]_vars

InitLoginCheck ==
    /\ InitDispatch /\ InitServer /\ InitComment
    /\ detector = NoCall /\ clamp_call = NoCall /\ login_check \in LoginChecks

\* check_login_status as a function of the browser's answers
SpecLoginCheck == InitLoginCheck /\ [][NextLoginCheck]_vars

\* the requests of /comment-on-post, one after the other
SpecComment == Init /\ [][NextComment]_vars

\* the steps of a running send_connection_request call
DispatchStep ==
    \/ LoginGate
    \/ Navigate
    \/ DetectStatus
    \/ _try_visible_connect_button
    \/ _strategy_click_add_note_button
    \/ _strategy_find_visible_textarea
    \/ _strategy_alternative_add_note_button
    \/ _click_send_button
    \/ _try_connect_in_dropdown_more
    \/ _try_connect_in_dropdown_connect
    \/ _try_follow_button

\* the steps of thread t inside the `with bot_lock:` of get_bot
GetBotStep(t) ==
    \/ get_bot_health_check(t)
    \/ get_bot_create(t)
    \/ get_bot_login(t)
    \/ get_bot_return(t)

\* the request threads under fairness: a thread inside get_bot takes its
\* next step, and a thread waiting for bot_lock gets it when it is free
\* again and again
SpecServerFair ==
    /\ SpecServer
    /\ \A t \in Threads : WF_vars(GetBotStep(t)) /\ SF_vars(get_bot_enter(t))

\* the dispatch calls and the server's requests, each running while the
\* other is at rest (they share no variable)
NextTerminates ==
    \/ InitServer /\ Next
    \/ InitDispatch /\ NextServer

\* every driver call and every wait returns or raises, so a step of a
\* running call, and of a thread inside get_bot, is taken; a thread waiting
\* for bot_lock gets it when it is free again and again
SpecTerminates ==
    /\ Init
    /\ [][NextTerminates]_vars
    /\ WF_vars(DispatchStep)
    /\ \A t \in Threads : WF_vars(GetBotStep(t)) /\ SF_vars(get_bot_enter(t))

-----------------------------------------------------------------------------
(* Properties *)

Order == <<"connect_visible", "connect_dropdown", "follow">>

IsPrefix(s, t) == Len(s) <= Len(t) /\ SubSeq(t, 1, Len(s)) = s

StatusActions == {"already_pending", "already_connected", "already_following"}

\* C1: in every dispatch call in which the Status Detector reported pending,
\* connected or following, the call has ended without any mutating action (no
\* click, nothing typed, no strategy started) and returned the detector's
\* report: success = true with action_taken already_pending,
\* already_connected or already_following.
C1_StatusShortCircuits ==
    status_result \notin {NotRun, None} =>
        /\ pc = "done"
        /\ ~raised
        /\ clicked = {}
        /\ outbound = 0
        /\ strategies = <<>>
        /\ outcome = status_result
        /\ Succeeded(outcome)
        /\ ActionTaken(outcome) \in StatusActions

\* a call that ended with the report of a connected profile
C1_Witness ==
    /\ pc = "done"
    /\ status_result # None
    /\ ActionTaken(outcome) = "already_connected"
    /\ "Message" \in page

\* C2: in every dispatch call, from entry to return, at most one click lands
\* on a Connect or Follow control.
C2_AtMostOneOutboundClick == outbound <= 1

\* C3: at most one thread of the control server is inside
\* send_connection_request at a time.
C3_OneDispatchInFlight ==
    Cardinality({t \in Threads : tpc[t] = "dispatch"}) <= 1

\* C4: whenever a dispatch call has clicked a Connect, More or Follow control,
\* or anything else, or has started a strategy, the Status Detector has
\* already returned in that call (and reported nothing).
C4_DetectorBeforeAnyClick ==
    (clicked # {} \/ outbound > 0 \/ strategies # <<>>) =>
        status_result # NotRun /\ status_result = None

\* a Connect click made after the detector returned
C4_Witness ==
    /\ "connect" \in clicked
    /\ outbound = 1
    /\ status_result = None
    /\ pc = "send"

\* C5: no fault of a driver call, of whatever kind and at whatever stage,
\* leaves send_connection_request as an exception: every call that ends
\* returns a dict with a boolean success.
C5_NoFaultPropagates ==
    /\ ~raised
    /\ pc = "done" =>
          /\ outcome # NotReturned
          /\ "success" \in DOMAIN outcome
          /\ outcome.success \in BOOLEAN

\* a lost session during navigation, returned as a failure dict
C5_Witness ==
    /\ pc = "done"
    /\ outcome = DispatchError("session")
    /\ status_result = NotRun

\* C6: a call in which the invite dialog was still displayed after the
\* submit click does not return success = true with action_taken =
\* connection_request.
C6_OpenDialogIsNotSuccess ==
    (pc = "done" /\ modal_after_send = "open") =>
        ~(Succeeded(outcome) /\ ActionTaken(outcome) = "connection_request")

\* what the detector call reported
Reported(r) == IF r = None THEN "none" ELSE r.action_taken

C8_EveryFailureFallsThrough ==
    /\ IsPrefix(strategies, Order)
    /\ (pc = "done" /\ status_result = None /\ ~Succeeded(outcome)) =>
          strategies = Order /\ ActionTaken(outcome) = "none"

\* C8: the strategies are started in the order Connect-visible,
\* Connect-in-dropdown, Follow, each after every earlier one ended without a
\* result.  A call that fails after the detector reported nothing either has
\* tried all three and returns the "No action available" dict, which has no
\* action_taken, or ends in the dropdown strategy, after its Connect click,
\* with "Could not click Send button" and Follow not tried.
C8_FallbackOrder ==
    /\ IsPrefix(strategies, Order)
    /\ pc = "visible" => strategies = SubSeq(Order, 1, 1)
    /\ pc \in {"dropdown", "dropdown_connect"} => strategies = SubSeq(Order, 1, 2)
    /\ pc = "follow" => strategies = Order
    /\ (pc = "done" /\ ActionTaken(outcome) = "follow") => strategies = Order
    /\ (pc = "done" /\ status_result = None /\ ~Succeeded(outcome)) =>
          \/ /\ strategies = Order
             /\ outcome = NoActionAvailable
          \/ /\ strategies = SubSeq(Order, 1, 2)
             /\ outcome = CouldNotClickSend
             /\ {"more", "connect"} \subseteq clicked
             /\ outbound >= 1

\* all three strategies tried and failed
C8_Witness ==
    /\ pc = "done"
    /\ status_result = None
    /\ strategies = Order
    /\ outcome = NoActionAvailable
    /\ outbound = 0

\* C9: in a call that follows one that returned connection_request, on a
\* loaded page that shows a visible Pending control, once the detector has
\* run no Connect control is clicked and the call returns already_pending.
C9_SecondCallIsPending ==
    (prior_request /\ "Pending" \in page /\ status_result # NotRun) =>
        /\ "connect" \notin clicked
        /\ pc = "done" => ActionTaken(outcome) = "already_pending"

\* C10: a note is reported as added only when the field content read back
\* contains the intended text, up to trimming.
C10_NoteReadBack ==
    message_actually_sent => Contains(typed_text, strip(note_text))

\* C11: a message longer than 300 characters is handed to the note
\* strategies as exactly 300 characters, the first 297 of the message
\* followed by "..."; a message of 300 characters or fewer is handed over
\* unchanged.
C11_NoteClamped ==
    (clamp_call # NoCall /\ clamp_call.returned) =>
        LET m == clamp_call.message
            r == clamp_call.result
        IN  IF Len(m) > 300
            THEN /\ Len(r) = 300
                 /\ SubSeq(r, 1, 297) = SubSeq(m, 1, 297)
                 /\ SubSeq(r, 298, 300) = <<".", ".", ".">>
            ELSE r = m

\* a message of 301 characters was clamped
C11_Witness ==
    /\ clamp_call # NoCall
    /\ clamp_call.returned
    /\ Len(clamp_call.message) = 301
    /\ Len(clamp_call.result) = 300
    /\ clamp_call.result # SubSeq(clamp_call.message, 1, 300)

\* C12: the button the Connect-visible strategy selects and clicks is never
\* one positioned at y > 700 or at x > 1000, whatever the selector and the
\* order of the matched elements.
C12_PositionFilter ==
    target # NoButton => ~(target.y > 700) /\ ~(target.x > 1000)

\* a button on the edge of the accepted region was clicked
C12_Witness ==
    /\ target # NoButton
    /\ target.y = 700
    /\ target.x = 1000
    /\ "connect" \in clicked

\* C13: the Connect-visible selectors are tried in list order, the first
\* when the strategy starts and each next one after the one before failed,
\* and the dropdown strategy starts only after the fourth, last selector.
C13_SelectorOrder ==
    [][/\ pc = "visible" => sel \in 1..4
       /\ (pc' = "visible" /\ pc = "detect") => sel' = 1
       /\ (pc' = "visible" /\ pc \in {"visible", "send"}) =>
             sel' = sel + 1 /\ sel' <= 4
       /\ (pc' = "dropdown" /\ pc # "dropdown") =>
             sel = 4 /\ pc \in {"visible", "send"}]_vars

\* the third selector is tried after the first two resolved to nothing
C13_Witness ==
    /\ pc = "visible"
    /\ sel = 3
    /\ clicked = {}
    /\ strategies = <<"connect_visible">>

\* C16: a Connect button clicked by a strategy is displayed and enabled.
C16_ClickedIsEnabled ==
    target # NoButton => target.displayed /\ target.enabled

\* C14 as stated: once an exception was raised in the detector, a strategy,
\* the note composer or the submit step, the call has ended with success =
\* false and the exception's message as error, with no further strategy.
C14_EveryExceptionIsTerminal ==
    swallowed =>
        /\ pc = "done"
        /\ ~Succeeded(outcome)
        /\ "error" \in DOMAIN outcome
        /\ outcome.error \in Kinds

\* C14: an exception of login, navigation or the wait for the profile ends
\* the call with success = false and its message as error, before the
\* detector ran and with no strategy started.  An exception inside the
\* detector, a strategy, the note composer or the submit step is caught
\* there and counts as that step's failure: the call goes on, never raises,
\* and its Outcome never carries that exception's message.
C14_ExceptionsCaughtWhereRaised ==
    /\ ~raised
    /\ (pc = "done" /\ \E k \in Kinds : outcome = DispatchError(k)) =>
          /\ status_result = NotRun
          /\ strategies = <<>>
          /\ clicked = {}
          /\ ~swallowed
    /\ (pc = "done" /\ swallowed /\ "error" \in DOMAIN outcome) =>
          outcome \in {NoActionAvailable, CouldNotClickSend}

\* a call that follows after an exception was caught in an earlier step
C14_Witness ==
    /\ pc = "done"
    /\ swallowed
    /\ outcome = Followed
    /\ "connect" \in clicked

NoteSteps == {"note1", "note2", "note3"}

\* C15: the note composer and the submit step run only after a Connect
\* click of the visible or the dropdown strategy; when a non-blank note was
\* supplied the submit step starts only out of the note composer, and the
\* composer does not run again after it; from the Follow strategy the call
\* only returns.
C15_NoteThenSubmit ==
    [][/\ (pc' \in NoteSteps \cup {"send"}) =>
             path' \in {"visible", "dropdown"} /\ "connect" \in clicked'
       /\ (pc' = "note1" /\ pc # "note1") =>
             pc \in {"visible", "dropdown_connect"} /\ outbound' = outbound + 1
       /\ (pc' = "send" /\ pc # "send") =>
             IF message_provided(message)
             THEN pc \in NoteSteps
             ELSE pc \in {"visible", "dropdown_connect"}
       /\ pc = "send" => pc' \notin NoteSteps
       /\ ~message_provided(message) => pc' \notin NoteSteps
       /\ pc = "follow" => pc' \in {"follow", "done"}]_vars

\* the submit step about to start after the composer added the note, on
\* the dropdown path
C15_Witness ==
    /\ pc = "send"
    /\ path = "dropdown"
    /\ message_actually_sent
    /\ "send" \notin clicked

\* C18: the note strategies run in the order 1, 2, 3; the composer stops at
\* the first that reports success and reports failure only after the third
\* failed on its last container.
C18_NoteStrategyOrder ==
    [][/\ (pc' = "note2" /\ pc # "note2") => pc = "note1"
       /\ (pc' = "note3" /\ pc # "note3") => pc = "note2"
       /\ pc = "note1" => pc' \in {"note1", "note2", "send"}
       /\ pc = "note2" => pc' \in {"note2", "note3", "send"}
       /\ pc = "note3" => pc' \in {"note3", "send"}
       /\ (pc \in NoteSteps /\ pc' = "send") =>
             IF message_actually_sent'
             THEN note_add_method' =
                     CASE pc = "note1" -> "click_add_note_button"
                       [] pc = "note2" -> "visible_textarea"
                       [] OTHER -> "alternative_click"
             ELSE pc = "note3" /\ container = 3
       /\ (pc \in NoteSteps /\ pc' \in NoteSteps) =>
             ~message_actually_sent']_vars

\* the third strategy added the note after the first two failed
C18_Witness ==
    /\ pc = "send"
    /\ message_actually_sent
    /\ note_add_method = "alternative_click"
    /\ typed_text = note_text

\* C17: the submit control clicked is one of the clickable ones; after a
\* note was added it is never a "Send without a note" control; when no note
\* was added and a "Send without a note" control is clickable, that one is
\* clicked, also when a plain "Send" control is clickable too.
C17_SubmitMatchesBranch ==
    send_control # "none" =>
        /\ send_control \in submit_offered
        /\ message_actually_sent => send_control # "Send without a note"
        /\ (~message_actually_sent /\ "Send without a note" \in submit_offered) =>
              send_control = "Send without a note"

\* no note, both controls clickable, "Send without a note" clicked
C17_Witness ==
    /\ pc = "done"
    /\ ~message_actually_sent
    /\ submit_offered = {"Send", "Send without a note"}
    /\ send_control = "Send without a note"

\* C19: in a dispatch in which no driver call raised, with a non-blank note
\* that the composer added after a Connect click on a profile detected as
\* none, the click on a submit control ends the dispatch, and the Outcome
\* has success = true, action_taken = connection_request and
\* message_sent = true.
C19_NotedRequestSucceeds ==
    [][(/\ pc = "send"
        /\ message_actually_sent
        /\ "send" \notin clicked
        /\ "send" \in clicked'
        /\ ~swallowed') =>
          /\ message_provided(message)
          /\ status_result = None
          /\ pc' = "done"
          /\ ~raised'
          /\ outcome' = ConnectionRequest(TRUE, note_add_method, message)
          /\ outcome'.success
          /\ outcome'.action_taken = "connection_request"
          /\ outcome'.message_sent]_vars

\* the note "Hi" went in through the first composer strategy after a click
\* on a visible Connect button and the request was submitted
C19_Witness ==
    /\ pc = "done"
    /\ ~swallowed
    /\ message = <<"H", "i">>
    /\ "more" \notin clicked
    /\ "send" \in clicked
    /\ outcome = ConnectionRequest(TRUE, "click_add_note_button", <<"H", "i">>)

\* C20 as stated: every Outcome carries success, action_taken (one of the
\* six names), message_sent and profile_url.
C20_EveryOutcomeHasAllFields ==
    (pc = "done" /\ ~raised) =>
        /\ {"success", "action_taken", "message_sent", "profile_url"}
              \subseteq DOMAIN outcome
        /\ outcome.success \in BOOLEAN
        /\ outcome.message_sent \in BOOLEAN
        /\ outcome.action_taken \in
              {"connection_request", "follow", "already_pending",
               "already_connected", "already_following", "none"}

\* C20: every Outcome carries a boolean success.  A successful one carries
\* action_taken (connection_request, follow, already_pending,
\* already_connected or already_following) and profile_url and no error, and
\* carries a boolean message_sent exactly when the action is
\* connection_request or follow.  A failed one carries error and neither
\* action_taken nor message_sent, and carries profile_url unless it is the
\* login failure or the "Could not click Send button" failure.
C20_OutcomeFields ==
    (pc = "done" /\ ~raised) =>
        /\ "success" \in DOMAIN outcome
        /\ outcome.success \in BOOLEAN
        /\ outcome.success =>
              /\ {"action_taken", "profile_url"} \subseteq DOMAIN outcome
              /\ "error" \notin DOMAIN outcome
              /\ outcome.action_taken \in
                    {"connection_request", "follow", "already_pending",
                     "already_connected", "already_following"}
              /\ "message_sent" \in DOMAIN outcome <=>
                    outcome.action_taken \in {"connection_request", "follow"}
              /\ "message_sent" \in DOMAIN outcome =>
                    outcome.message_sent \in BOOLEAN
        /\ ~outcome.success =>
              /\ "error" \in DOMAIN outcome
              /\ "action_taken" \notin DOMAIN outcome
              /\ "message_sent" \notin DOMAIN outcome
              /\ "profile_url" \in DOMAIN outcome <=>
                    outcome \notin {LoginFailed, CouldNotClickSend}

\* a dispatch that found the profile already pending returned its dict,
\* which has no message_sent
C20_Witness ==
    /\ pc = "done"
    /\ ~raised
    /\ Succeeded(outcome)
    /\ ActionTaken(outcome) = "already_pending"
    /\ "message_sent" \notin DOMAIN outcome

\* C21: get_bot hands out only a bot that passed the liveness check in that
\* same call, or that was constructed and logged in in that call while its
\* driver answered.  A bot that fails the check is torn down at once (its
\* browser is gone unless quit raised on the dead session, the global is
\* cleared) and a new one is made; it is not the bot this call returns, and
\* no later call returns it, since the global is never set to anything but
\* None or a bot constructed at that moment.
C21_ReturnedBotIsVetted ==
    [][\A t \in Threads :
         /\ (tpc[t] = "return" /\ tpc'[t] = "dispatch" /\ bot_instance'[t] # NoBot) =>
               /\ vetted[t].how \in {"health", "fresh"}
               /\ vetted[t].bot = bot_instance'[t]
               /\ bot_instance'[t] # failed[t]
         /\ (vetted'[t] # vetted[t] /\ vetted'[t].how = "health") =>
               /\ tpc[t] = "health"
               /\ vetted'[t].bot = bot
               /\ Answers(bot)
         /\ (vetted'[t] # vetted[t] /\ vetted'[t].how = "fresh") =>
               /\ tpc[t] = "login"
               /\ vetted'[t].bot = bot
               /\ bot = made
               /\ Answers(bot)
         /\ (tpc[t] = "health" /\ tpc'[t] # "health" /\ bot # NoBot /\ ~Answers(bot)) =>
               /\ bot' = NoBot
               /\ failed'[t] = bot
               /\ bot \in browsers' => bot \in dead
               /\ tpc'[t] = "create"
         /\ (bot' # bot /\ bot' # NoBot) =>
               /\ bot = NoBot
               /\ made' = made + 1
               /\ bot' = made'
               /\ bot' \notin browsers]_vars

\* a get_bot call that found the bot dead, tore it down and is about to
\* return the logged-in bot it made instead
C21_Witness ==
    \E t \in Threads :
       /\ tpc[t] = "return"
       /\ failed[t] # NoBot
       /\ failed[t] \in dead
       /\ vetted[t].how = "fresh"
       /\ bot = vetted[t].bot
       /\ bot # failed[t]

\* C22 as stated: no dispatch ends with an error Outcome because an element
\* was not found or not clickable or a wait ran out.
C22_NeverEndsOnStructuralOrTimeout ==
    pc = "done" =>
        outcome \notin {DispatchError("structural"), DispatchError("timeout"),
                        CouldNotClickSend}

\* C22: a failure inside status detection, a Connect strategy, the note
\* composer, the submit step or the Follow strategy sends the call on to the
\* next selector, the next note strategy or the next fallback strategy.  The
\* call ends with an error Outcome only at login or navigation (the
\* exception's message; a timeout of the wait for the profile actions is
\* passed over), at a submit that fails after the Connect click of the
\* dropdown strategy ("Could not click Send button") and after Follow, the
\* last fallback, failed ("No action available").
C22_FailureMovesOn ==
    [][/\ pc = "gate" =>
             \/ pc' \in {"gate", "navigate"}
             \/ pc' = "done" /\ outcome' \in {LoginFailed} \cup {DispatchError(k) : k \in Kinds}
       /\ pc = "navigate" =>
             \/ pc' \in {"navigate", "detect"}
             \/ pc' = "done" /\ outcome' \in {DispatchError(k) : k \in Kinds}
       /\ pc = "detect" =>
             \/ pc' \in {"detect", "visible"}
             \/ pc' = "done" /\ Succeeded(outcome')
       /\ pc = "visible" =>
             \/ pc' = "visible" /\ sel' \in {sel, sel + 1}
             \/ pc' \in {"note1", "send"} /\ "connect" \in clicked'
             \/ pc' = "dropdown" /\ sel = NumVisibleSelectors
       /\ pc \in NoteSteps => pc' \in NoteSteps \cup {"send"}
       /\ (pc = "send" /\ path = "visible") =>
             \/ pc' \in {"send", "visible"}
             \/ pc' = "dropdown" /\ sel = NumVisibleSelectors
             \/ pc' = "done" /\ Succeeded(outcome')
       /\ pc = "dropdown" => pc' \in {"dropdown", "dropdown_connect", "follow"}
       /\ pc = "dropdown_connect" =>
             pc' \in {"dropdown_connect", "note1", "send", "follow"}
       /\ (pc = "send" /\ path = "dropdown") =>
             \/ pc' \in {"send", "follow"}
             \/ pc' = "done" /\ (Succeeded(outcome') \/ outcome' = CouldNotClickSend)
       /\ pc = "follow" =>
             \/ pc' = "follow"
             \/ pc' = "done" /\ outcome' \in {Followed, NoActionAvailable}]_vars

\* the dropdown strategy started after exceptions were caught in the
\* visible strategy
C22_Witness ==
    /\ pc = "dropdown"
    /\ swallowed
    /\ strategies = <<"connect_visible", "connect_dropdown">>
    /\ outbound = 0

C24_ActionOnlyAfterItsClicks ==
    [][/\ (pc # "done" /\ pc' = "done"
            /\ ActionTaken(outcome') = "connection_request") =>
             /\ pc = "send"
             /\ status_result = None
             /\ "connect" \in clicked
             /\ outbound >= 1
             /\ send_control = "none"
             /\ send_control' \in submit_offered'
             /\ "send" \in clicked'
             /\ Succeeded(outcome')
       /\ (pc # "done" /\ pc' = "done" /\ ActionTaken(outcome') = "follow") =>
             /\ pc = "follow"
             /\ status_result = None
             /\ strategies = Order
             /\ "follow" \notin clicked
             /\ "follow" \in clicked'
             /\ outbound' = outbound + 1
             /\ Succeeded(outcome')]_vars

\* a call that followed: nothing but the Follow control was clicked, after
\* both Connect strategies found nothing
C24_Witness ==
    /\ pc = "done"
    /\ outcome = Followed
    /\ strategies = Order
    /\ clicked = {"follow"}
    /\ outbound = 1

\* what C25 says of a state: with a blank message the note composer does
\* not run and nothing counts as sent; a note counts as sent only when the
\* message was non-blank and a note strategy reported success after typing;
\* a connection_request Outcome reports message_sent as it was counted in
\* the attempt that was submitted, true exactly when a note method is named.
C25_SentAsCounted ==
    /\ ~message_provided(message) =>
          /\ pc \notin NoteSteps
          /\ ~message_actually_sent
          /\ note_text = <<>>
    /\ message_actually_sent =>
          /\ message_provided(message)
          /\ note_add_method # "None"
          /\ "type" \in clicked
    /\ ~message_actually_sent => note_add_method = "None"
    /\ (pc = "done" /\ ActionTaken(outcome) = "connection_request") =>
          /\ outcome.message_sent = message_actually_sent
          /\ outcome.message_sent <=> outcome.note_method # "None"
          /\ outcome.message_sent => outcome.message_provided
          /\ outcome.message_provided = message_provided(message)

-----------------------------------------------------------------------------
\* C27: no use-after-close of the shared session.  While a request is inside
\* send_connection_request on the bot get_bot handed it, that bot's browser
\* has not been closed and the global still refers to it; and a request
\* that is about to write the global in close_bot holds bot_lock.
C27_NoUseAfterClose ==
    \A t \in Threads :
        /\ (tpc[t] = "dispatch" /\ bot_instance[t] # NoBot)
              => (bot_instance[t] \in browsers /\ bot = bot_instance[t])
        /\ tpc[t] = "close_clear" => bot_lock = t


-----------------------------------------------------------------------------
\* C28: no orphaned browser.  Every browser that was started and has not
\* been closed is the one the global bot refers to, so at most one browser
\* is alive at a time.
C28_NoOrphanedBrowser ==
    /\ browsers \subseteq {bot}
    /\ Cardinality(browsers) <= 1


-----------------------------------------------------------------------------
\* C29: whenever an exception reaches the except block of send_connection,
\* the block leaves the current bot closed (its browser ended, unless the
\* session was already lost) and the global reference cleared, so that the
\* next get_bot creates a fresh bot.
C29_AnyErrorRecreatesBot ==
    [][\A t \in Threads :
          (tpc[t] = "except" /\ tpc'[t] # "except")
             => /\ bot' = NoBot
                /\ bot \in browsers' => bot \in dead]_vars


-----------------------------------------------------------------------------
\* C30: the login gate.  A call on a bot that is not logged in attempts
\* login first and goes on to the profile only when it succeeded; when
\* login returns false the call returns {success: false, error: 'Login
\* failed'} with no page loaded, no status detection, no strategy run and
\* no click.  On a bot already flagged logged in, login() returns true and
\* changes nothing, and the gate goes straight to the navigation.
C30_NothingDone ==
    /\ page = {}
    /\ status_result = NotRun
    /\ strategies = <<>>
    /\ clicked = {}
    /\ outbound = 0
    /\ ~message_actually_sent

C30_GateState ==
    /\ pc \notin {"idle", "gate", "done"} => logged_in
    /\ (pc = "done" /\ outcome = LoginFailed) => (~logged_in /\ C30_NothingDone)
    /\ (pc = "done" /\ ~logged_in) => C30_NothingDone

C30_LoginGate ==
    /\ []C30_GateState
    /\ [][/\ (pc = "gate" /\ pc' # "gate" /\ ~logged_in)
             => \/ pc' = "navigate" /\ logged_in' /\ outcome' = NotReturned
                \/ /\ pc' = "done"
                   /\ ~logged_in'
                   /\ outcome' \in {LoginFailed, NotReturned}
                                     \cup {DispatchError(k) : k \in Kinds}
                   /\ outcome' = NotReturned => raised'
          /\ (pc = "gate" /\ pc' # "gate" /\ logged_in)
             => pc' = "navigate" /\ logged_in' /\ outcome' = NotReturned
          /\ (pc = "idle" /\ pc' = "idle" /\ logged_in) => UNCHANGED vars]_vars

C30_Witness ==
    /\ pc = "done"
    /\ outcome = LoginFailed
    /\ ~logged_in
    /\ ~raised
    /\ C30_NothingDone
    /\ message # <<>>


-----------------------------------------------------------------------------
-----------------------------------------------------------------------------
\* C32: the check after the submit is conservative.  When a read of the
\* comment box raised, the comment counts as failed; comment_success is
\* true and the status 200 only when the box was read back and found empty
\* or without the comment text.
C32_VerificationConservative ==
    /\ verify_read = "unreadable" => ~comment_success
    /\ (comment_success \/ comment_response.status = 200)
          => verify_read = "cleared"


-----------------------------------------------------------------------------
\* C33: on every path of send_connection_request the Outcome is consistent:
\* one with success = true carries an action_taken among connection_request,
\* follow, already_pending, already_connected, already_following; one with
\* success = false carries a non-empty error and names no action, neither in
\* the dict nor as its callers read it.
C33_OutcomeConsistent ==
    (pc = "done" /\ ~raised) =>
        /\ outcome # NotReturned
        /\ Succeeded(outcome) =>
              ActionTaken(outcome) \in
                 {"connection_request", "follow"} \cup StatusActions
        /\ ~Succeeded(outcome) =>
              /\ "success" \in DOMAIN outcome
              /\ "error" \in DOMAIN outcome
              /\ outcome.error # ""
              /\ ActionTaken(outcome) = "none"

\* a call that clicked Connect in the More menu and could not submit
\* returned the failure dict, which names no action
C33_Witness ==
    /\ pc = "done"
    /\ ~raised
    /\ outcome = CouldNotClickSend
    /\ "more" \in clicked
    /\ "connect" \in clicked
    /\ "send" \notin clicked
    /\ ActionTaken(outcome) = "none"


-----------------------------------------------------------------------------
\* C34: dispatch terminates.  Every step of a running send_connection_request
\* call moves it strictly forward in the order gate, navigation, detection,
\* the visible selectors one by one (each with its note strategies and its
\* submit step), the More menu, Follow, the end: no selector and no strategy
\* is tried twice, a call that has not ended can always take a step, and so
\* the call ends within a bounded number of steps.  bot_lock is held only by
\* a thread inside get_bot, which moves forward with every step, can always
\* take one, and has released the lock when it leaves get_bot by a return
\* or by an exception; a waiting thread can enter whenever the lock is free.
C34_Offset ==
    CASE pc = "note1" -> 1
      [] pc = "note2" -> 2
      [] pc = "note3" -> 2 + container
      [] OTHER -> 6

C34_Position ==
    CASE pc = "idle" -> 0
      [] pc = "gate" -> 1
      [] pc = "navigate" -> 2
      [] pc = "detect" -> 3
      [] pc = "visible" -> 10 * sel
      [] pc \in NoteSteps \cup {"send"} ->
            (IF path = "visible" THEN 10 * sel ELSE 51) + C34_Offset
      [] pc = "dropdown" -> 50
      [] pc = "dropdown_connect" -> 51
      [] pc = "follow" -> 60
      [] OTHER -> 70

C34_GetBotPosition(p) ==
    CASE p = "health" -> 1
      [] p = "create" -> 2
      [] p = "login" -> 3
      [] p = "return" -> 4
      [] OTHER -> 5

C34_InGetBot == {"health", "create", "login", "return"}

C34_Progress ==
    /\ pc \notin {"idle", "done"} => ENABLED DispatchStep
    /\ C34_Position \in 0..70
    /\ pc = "visible" => sel \in 1..NumVisibleSelectors
    /\ \A i, j \in DOMAIN strategies : i # j => strategies[i] # strategies[j]
    /\ bot_lock \in {0} \cup Threads
    /\ \A t \in Threads :
          /\ bot_lock = t <=> tpc[t] \in C34_InGetBot
          /\ bot_lock = t => ENABLED GetBotStep(t)
          /\ (tpc[t] = "get_bot" /\ bot_lock = 0) => ENABLED get_bot_enter(t)

C34_LockFreedAndAcquired ==
    \A t \in Threads :
        /\ (bot_lock = t) ~> (bot_lock = 0)
        /\ (tpc[t] = "get_bot") ~> (bot_lock = t)

-----------------------------------------------------------------------------
\* C35: check_login_status leaves the logged_in flag equal to what it
\* returns, on every path, and always returns: true only when a logged-in
\* element was found displayed (or posts on the feed), false when the load
\* failed, the URL could not be read or no such element was found; and on a
\* URL of the login page, a checkpoint, the authwall or the signup page it
\* returns false whatever elements the page shows.
C35_AuthUrl(url) ==
    \E i \in DOMAIN url :
       Lower(url[i]) \in {"login", "checkpoint", "authwall", "signup"}

C35_ElementSeen(c) ==
    \/ "displayed" \in {c.me, c.nav, c.search}
    \/ c.posts = "some" /\ (\E i \in DOMAIN c.url : Lower(c.url[i]) = "feed")

C35_LoadFailed(c) ==
    \/ c.get \notin {"ok", "timeout"}
    \/ c.get = "timeout" /\ ~c.usable
    \/ c.url_raises

C35_FlagEqualsResult ==
    (login_check # NoCall /\ login_check.returned) =>
        LET c == login_check
            r == login_check.result
        IN /\ r.ret \in BOOLEAN
           /\ r.logged_in = r.ret
           /\ C35_AuthUrl(c.url) => ~r.ret
           /\ C35_LoadFailed(c) => ~r.ret
           /\ r.ret <=> (~C35_LoadFailed(c) /\ ~C35_AuthUrl(c.url) /\ C35_ElementSeen(c))

\* a bot flagged logged in is checked on a page whose URL is the login
\* page and which shows the Me button: the result and the flag are false
C35_Witness ==
    /\ login_check # NoCall
    /\ login_check.returned
    /\ login_check.flag
    /\ login_check.get = "ok"
    /\ ~login_check.url_raises
    /\ login_check.url = <<"Login">>
    /\ login_check.me = "displayed"
    /\ login_check.result = [ret |-> FALSE, logged_in |-> FALSE]

=============================================================================
